---- MODULE Spec2Model ----
(***************************************************************************)
(* Model of scuf_virtual_pad.py: the bridge that translates the evdev      *)
(* event stream and the hidraw report stream of a SCUF Envision Pro into   *)
(* writes on a virtual Xbox-style uinput device.                           *)
(*                                                                         *)
(* The engine state is main()'s locals (last_stick, last_l2, last_r2,      *)
(* hat_x, hat_y, last_dpad).  The uinput device is the log `sink` of every *)
(* ui.write / ui.syn since construction.  `fed` is a history variable: one *)
(* record per select() wakeup, with the input read, the engine state and   *)
(* the sink length before the handler ran, and for an evdev batch the      *)
(* number of writes each event produced.                                   *)
(***************************************************************************)
EXTENDS Integers, Sequences, FiniteSets, TLC

VARIABLES last_stick, last_l2, last_r2, hat_x, hat_y, last_dpad, sink, fed

vars == <<last_stick, last_l2, last_r2, hat_x, hat_y, last_dpad, sink, fed>>

(* ------------------------------ CONFIG -------------------------------- *)

LEFT_DEADZONE == 3500
LEFT_JITTER == 300
RIGHT_DEADZONE == 2000
RIGHT_JITTER == 300
L2_MAX == 1023
R2_MAX == 1023

\* 0x8000, the rest position of the centered reading, and 0x7FFF, the
\* largest delta above it.
CENTER == 32768
MAX_DELTA == 32767

\* parse_report6: the report type, the minimum length and the (0-based)
\* offset of the little-endian u16.
REPORT_ID == 6
REPORT_MIN_LEN == 14
RX_OFFSET == 9

(* --------------------------- Python values ---------------------------- *)

\* Optional values: None, or a one-element tuple holding the value.
None == <<>>
Some(v) == <<v>>

Abs(x) == IF x < 0 THEN -x ELSE x

\* Mutant of PyRound: int() in place of round(), truncation.
PyTruncate(num, den) == num \div den

\* Python's round() of the rational num/den (den > 0): to the nearest
\* integer, a tie going to the even one.  The code rounds the float
\* (delta / 0x7FFF) * max_val; for max_val = 1023 the exact value is
\* delta * 33 / 1057, never closer than 1/2114 to a tie, so the float and
\* the rational round alike.
PyRound(num, den) ==
    LET q == num \div den
        r == num % den
    IN  IF 2 * r < den THEN q
        ELSE IF 2 * r > den THEN q + 1
        ELSE IF q % 2 = 0 THEN q ELSE q + 1

(* ------------------------------ Tables -------------------------------- *)

BUTTON_REMAP ==
    ("BTN_SOUTH" :> "BTN_SOUTH") @@ ("BTN_EAST" :> "BTN_EAST") @@
    ("BTN_NORTH" :> "BTN_NORTH") @@ ("BTN_C" :> "BTN_WEST") @@
    ("BTN_WEST" :> "BTN_TL") @@ ("BTN_Z" :> "BTN_TR") @@
    ("BTN_TR" :> "BTN_START") @@ ("BTN_TL" :> "BTN_SELECT") @@
    ("BTN_MODE" :> "BTN_MODE") @@ ("BTN_TL2" :> "BTN_THUMBL") @@
    ("BTN_TR2" :> "BTN_THUMBR")

VIRTUAL_BUTTONS ==
    { "BTN_SOUTH", "BTN_EAST", "BTN_NORTH", "BTN_WEST",
      "BTN_TL", "BTN_TR",
      "BTN_SELECT", "BTN_START", "BTN_MODE",
      "BTN_THUMBL", "BTN_THUMBR",
      "BTN_DPAD_UP", "BTN_DPAD_DOWN", "BTN_DPAD_LEFT", "BTN_DPAD_RIGHT" }

\* The order in which apply_dpad's dict is iterated.
DPAD_ORDER == <<"BTN_DPAD_LEFT", "BTN_DPAD_RIGHT", "BTN_DPAD_UP", "BTN_DPAD_DOWN">>

DPAD_BUTTONS == { DPAD_ORDER[i] : i \in 1..Len(DPAD_ORDER) }

(* ------------------------------- Sink --------------------------------- *)

\* ui.write(type, code, value) and ui.syn() as entries of the sink log.
Write(t, c, v) == [op |-> "write", type |-> t, code |-> c, value |-> v]
Syn == [op |-> "syn", type |-> "EV_SYN", code |-> "SYN_REPORT", value |-> 0]

\* What make_uinput() writes before it returns the device.
StartupWrites ==
    << Write("EV_ABS", "ABS_X", 0), Write("EV_ABS", "ABS_Y", 0),
       Write("EV_ABS", "ABS_RX", 0), Write("EV_ABS", "ABS_RY", 0),
       Write("EV_ABS", "ABS_Z", 0), Write("EV_ABS", "ABS_RZ", 0),
       Write("EV_ABS", "ABS_HAT0X", 0), Write("EV_ABS", "ABS_HAT0Y", 0),
       Syn >>

\* The EV_ABS entry of make_uinput's cap: the axes the virtual device
\* declares, each with its range.
AbsCap ==
    [a \in {"ABS_X", "ABS_Y", "ABS_RX", "ABS_RY"} |-> [min |-> -32768, max |-> 32767]]
    @@ [a \in {"ABS_Z", "ABS_RZ"} |-> [min |-> 0, max |-> 1023]]
    @@ [a \in {"ABS_HAT0X", "ABS_HAT0Y"} |-> [min |-> -1, max |-> 1]]

\* An evdev input event.
Ev(t, c, v) == [type |-> t, code |-> c, value |-> v]

(* -------------------------- Report Decoder ---------------------------- *)

\* Mutant of parse_report6: no length test beyond the bytes it reads.
parse_report6_NoMinLen(report) ==
    IF Len(report) = 0 \/ report[1] # REPORT_ID THEN None
    ELSE IF Len(report) < RX_OFFSET + 2 THEN None
    ELSE Some(report[RX_OFFSET + 1] + 256 * report[RX_OFFSET + 2])

\* A report is a sequence of bytes; report[0] of the code is report[1] here.
parse_report6(report) ==
    IF Len(report) = 0 \/ report[1] # REPORT_ID THEN None
    ELSE IF Len(report) < REPORT_MIN_LEN THEN None
    ELSE Some(report[RX_OFFSET + 1] + 256 * report[RX_OFFSET + 2])

\* Mutant of centered_u16_to_trigger: a negative delta is not raised to 0.
centered_u16_to_trigger_NoFloor(raw_u16, max_val) ==
    LET d0 == raw_u16 - CENTER
        delta == IF d0 > MAX_DELTA THEN MAX_DELTA ELSE d0
    IN  PyRound(delta * max_val, MAX_DELTA)

centered_u16_to_trigger(raw_u16, max_val) ==
    LET d0 == raw_u16 - CENTER
        d1 == IF d0 < 0 THEN 0 ELSE d0
        delta == IF d1 > MAX_DELTA THEN MAX_DELTA ELSE d1
    IN  PyRound(delta * max_val, MAX_DELTA)

(* ---------------------------- Axis Filter ----------------------------- *)

\* last.get(axis_code): the dict is a function whose domain is its keys.
DictGet(d, k) == IF k \in DOMAIN d THEN Some(d[k]) ELSE None

\* Mutant of DictSet: the dict is replaced by one holding only the new key.
DictSetFresh(d, k, v) == [x \in {k} |-> v]

DictSet(d, k, v) == [x \in DOMAIN d \cup {k} |-> IF x = k THEN v ELSE d[x]]

\* Mutant of apply_stick_filter: an axis never seen counts as resting at 0
\* (last.get(axis_code, 0)).
apply_stick_filter_PrevZero(axis_code, signed_value, last) ==
    LET right == axis_code \in {"ABS_RX", "ABS_RY"}
        dz == IF right THEN RIGHT_DEADZONE ELSE LEFT_DEADZONE
        js == IF right THEN RIGHT_JITTER ELSE LEFT_JITTER
        v == IF Abs(signed_value) < dz THEN 0 ELSE signed_value
        prev == IF axis_code \in DOMAIN last THEN last[axis_code] ELSE 0
    IN  IF v # 0 /\ Abs(v - prev) < js
        THEN [ret |-> None, last |-> last]
        ELSE IF v = 0 /\ prev = 0
        THEN [ret |-> None, last |-> last]
        ELSE [ret |-> Some(v), last |-> DictSet(last, axis_code, v)]

\* Mutant of apply_stick_filter: no rejection of a zero that follows a zero.
apply_stick_filter_NoZeroTest(axis_code, signed_value, last) ==
    LET right == axis_code \in {"ABS_RX", "ABS_RY"}
        dz == IF right THEN RIGHT_DEADZONE ELSE LEFT_DEADZONE
        js == IF right THEN RIGHT_JITTER ELSE LEFT_JITTER
        v == IF Abs(signed_value) < dz THEN 0 ELSE signed_value
        prev == DictGet(last, axis_code)
    IN  IF prev # None /\ v # 0 /\ Abs(v - prev[1]) < js
        THEN [ret |-> None, last |-> last]
        ELSE [ret |-> Some(v), last |-> DictSet(last, axis_code, v)]

\* Mutant of apply_stick_filter: a change of exactly the jitter threshold
\* is suppressed too (<= in place of <).
apply_stick_filter_JitterLeq(axis_code, signed_value, last) ==
    LET right == axis_code \in {"ABS_RX", "ABS_RY"}
        dz == IF right THEN RIGHT_DEADZONE ELSE LEFT_DEADZONE
        js == IF right THEN RIGHT_JITTER ELSE LEFT_JITTER
        v == IF Abs(signed_value) < dz THEN 0 ELSE signed_value
        prev == DictGet(last, axis_code)
    IN  IF prev # None /\ v # 0 /\ Abs(v - prev[1]) <= js
        THEN [ret |-> None, last |-> last]
        ELSE IF prev # None /\ v = 0 /\ prev[1] = 0
        THEN [ret |-> None, last |-> last]
        ELSE [ret |-> Some(v), last |-> DictSet(last, axis_code, v)]

\* Returns the value to forward (or None) and the dict as the call leaves it.
apply_stick_filter(axis_code, signed_value, last) ==
    LET right == axis_code \in {"ABS_RX", "ABS_RY"}
        dz == IF right THEN RIGHT_DEADZONE ELSE LEFT_DEADZONE
        js == IF right THEN RIGHT_JITTER ELSE LEFT_JITTER
        v == IF Abs(signed_value) < dz THEN 0 ELSE signed_value
        prev == DictGet(last, axis_code)
    IN  IF prev # None /\ v # 0 /\ Abs(v - prev[1]) < js
        THEN [ret |-> None, last |-> last]
        ELSE IF prev # None /\ v = 0 /\ prev[1] = 0
        THEN [ret |-> None, last |-> last]
        ELSE [ret |-> Some(v), last |-> DictSet(last, axis_code, v)]

(* -------------------------- D-Pad Synthesizer ------------------------- *)

\* Mutant of DpadTarget: the vertical axis read the other way round
\* (up on hat-Y = 1, down on hat-Y = -1).
DpadTargetInverted(hx, hy) ==
    [b \in DPAD_BUTTONS |->
        CASE b = "BTN_DPAD_LEFT" -> IF hx = -1 THEN 1 ELSE 0
          [] b = "BTN_DPAD_RIGHT" -> IF hx = 1 THEN 1 ELSE 0
          [] b = "BTN_DPAD_UP" -> IF hy = 1 THEN 1 ELSE 0
          [] b = "BTN_DPAD_DOWN" -> IF hy = -1 THEN 1 ELSE 0]

\* The dict apply_dpad builds from the hat position.
DpadTarget(hx, hy) ==
    [b \in DPAD_BUTTONS |->
        CASE b = "BTN_DPAD_LEFT" -> IF hx = -1 THEN 1 ELSE 0
          [] b = "BTN_DPAD_RIGHT" -> IF hx = 1 THEN 1 ELSE 0
          [] b = "BTN_DPAD_UP" -> IF hy = -1 THEN 1 ELSE 0
          [] b = "BTN_DPAD_DOWN" -> IF hy = 1 THEN 1 ELSE 0]

\* Mutant of DpadWrites: every button is written, changed or not.
RECURSIVE DpadWritesAll(_, _, _)
DpadWritesAll(target, sent, i) ==
    IF i > Len(DPAD_ORDER) THEN <<>>
    ELSE <<Write("EV_KEY", DPAD_ORDER[i], target[DPAD_ORDER[i]])>>
         \o DpadWritesAll(target, sent, i + 1)

\* The writes of apply_dpad's loop from button i of DPAD_ORDER on.
RECURSIVE DpadWrites(_, _, _)
DpadWrites(target, sent, i) ==
    IF i > Len(DPAD_ORDER) THEN <<>>
    ELSE LET btn == DPAD_ORDER[i]
         IN  (IF sent[btn] # target[btn]
              THEN <<Write("EV_KEY", btn, target[btn])>> ELSE <<>>)
             \o DpadWrites(target, sent, i + 1)

\* Mutant of apply_dpad: the state sent is not recorded in last_dpad.
apply_dpad_NoRecord(s) ==
    [s EXCEPT !.w = @ \o DpadWrites(DpadTarget(s.hat_x, s.hat_y), s.last_dpad, 1)]

\* s is the engine state while a batch is handled, with the writes queued
\* so far in s.w.  After the loop every button has its target state.
apply_dpad(s) ==
    LET target == DpadTarget(s.hat_x, s.hat_y)
    IN  [s EXCEPT !.w = @ \o DpadWrites(target, s.last_dpad, 1),
                  !.last_dpad = target]

(* ------------------------- Translation Engine ------------------------- *)

\* Mutant of KeyOut: the table applied until the code is outside its domain
\* or maps to itself.
RECURSIVE KeyOutTransitive(_)
KeyOutTransitive(code) ==
    IF code \in DOMAIN BUTTON_REMAP /\ BUTTON_REMAP[code] # code
    THEN KeyOutTransitive(BUTTON_REMAP[code])
    ELSE code

\* BUTTON_REMAP.get(code, code)
KeyOut(code) == IF code \in DOMAIN BUTTON_REMAP THEN BUTTON_REMAP[code] ELSE code

\* Mutant of HandleKey: the looked-up code is written without the
\* VIRTUAL_BUTTONS test.
HandleKeyUnchecked(s, ev) ==
    [s EXCEPT !.w = Append(@, Write("EV_KEY", KeyOut(ev.code), ev.value))]

\* The EV_KEY branch of the event loop.
HandleKey(s, ev) ==
    LET out == KeyOut(ev.code)
    IN  IF out \in VIRTUAL_BUTTONS
        THEN [s EXCEPT !.w = Append(@, Write("EV_KEY", out, ev.value))]
        ELSE s

\* A stick event: filter under the output axis code, forward if accepted.
HandleStick(s, out_axis, value) ==
    LET f == apply_stick_filter(out_axis, value, s.last_stick)
    IN  IF f.ret # None
        THEN [s EXCEPT !.last_stick = f.last,
                       !.w = Append(@, Write("EV_ABS", out_axis, f.ret[1]))]
        ELSE [s EXCEPT !.last_stick = f.last]

\* Mutant of HandleL2: the left trigger goes through the stick filter
\* under the code it arrives with.
HandleL2Filtered(s, value) ==
    LET f == apply_stick_filter("ABS_RX", value, s.last_stick)
    IN  IF f.ret # None
        THEN [s EXCEPT !.last_stick = f.last, !.last_l2 = f.ret[1],
                       !.w = Append(@, Write("EV_ABS", "ABS_Z", f.ret[1]))]
        ELSE [s EXCEPT !.last_stick = f.last]

\* Mutant of HandleL2: the value is compared with, and kept in, the right
\* trigger's variable.
HandleL2SharedLast(s, value) ==
    IF value # s.last_r2
    THEN [s EXCEPT !.w = Append(@, Write("EV_ABS", "ABS_Z", value)),
                   !.last_r2 = value]
    ELSE s

\* The left trigger, from evdev ABS_RX.
HandleL2(s, value) ==
    IF value # s.last_l2
    THEN [s EXCEPT !.w = Append(@, Write("EV_ABS", "ABS_Z", value)),
                   !.last_l2 = value]
    ELSE s

\* Mutant of HandleAbs: a hat event is also relayed on its own axis.
HandleAbsRelayHat(s, ev) ==
    IF ev.code \in {"ABS_X", "ABS_Y"} THEN HandleStick(s, ev.code, ev.value)
    ELSE IF ev.code = "ABS_RX" THEN HandleL2(s, ev.value)
    ELSE IF ev.code = "ABS_Z" THEN HandleStick(s, "ABS_RX", ev.value)
    ELSE IF ev.code = "ABS_RZ" THEN HandleStick(s, "ABS_RY", ev.value)
    ELSE IF ev.code = "ABS_RY" THEN s
    ELSE IF ev.code = "ABS_HAT0X"
    THEN apply_dpad([s EXCEPT !.hat_x = ev.value,
                              !.w = Append(@, Write("EV_ABS", ev.code, ev.value))])
    ELSE IF ev.code = "ABS_HAT0Y"
    THEN apply_dpad([s EXCEPT !.hat_y = ev.value,
                              !.w = Append(@, Write("EV_ABS", ev.code, ev.value))])
    ELSE s

\* The EV_ABS branch of the event loop.
HandleAbs(s, ev) ==
    IF ev.code \in {"ABS_X", "ABS_Y"} THEN HandleStick(s, ev.code, ev.value)
    ELSE IF ev.code = "ABS_RX" THEN HandleL2(s, ev.value)
    ELSE IF ev.code = "ABS_Z" THEN HandleStick(s, "ABS_RX", ev.value)
    ELSE IF ev.code = "ABS_RZ" THEN HandleStick(s, "ABS_RY", ev.value)
    ELSE IF ev.code = "ABS_RY" THEN s
    ELSE IF ev.code = "ABS_HAT0X" THEN apply_dpad([s EXCEPT !.hat_x = ev.value])
    ELSE IF ev.code = "ABS_HAT0Y" THEN apply_dpad([s EXCEPT !.hat_y = ev.value])
    ELSE s

\* One iteration of `for ev in batch`.
HandleEvent(s, ev) ==
    IF ev.type = "EV_KEY" THEN HandleKey(s, ev)
    ELSE IF ev.type = "EV_ABS" THEN HandleAbs(s, ev)
    ELSE s

\* The loop from event i on; cuts collects the number of writes each event
\* queued.
RECURSIVE RunBatch(_, _, _, _)
RunBatch(s, batch, i, cuts) ==
    IF i > Len(batch) THEN [s |-> s, cuts |-> cuts]
    ELSE LET t == HandleEvent(s, batch[i])
         IN  RunBatch(t, batch, i + 1, Append(cuts, Len(t.w) - Len(s.w)))

\* Mutant of BatchCommit: the batch's writes are left without a commit.
BatchCommitNever(w) == w

\* Mutant of BatchCommit: a commit only when the batch queued a write.
BatchCommitIfAny(w) == IF w = <<>> THEN w ELSE Append(w, Syn)

\* The trailing ui.syn() of the evdev branch.
BatchCommit(w) == Append(w, Syn)

\* The evdev branch for a batch that was read: the engine state it leaves,
\* what it sends to the sink, and the per-event write counts.
EvdevHandler(eng, batch) ==
    LET r == RunBatch([eng EXCEPT !.w = <<>>], batch, 1, <<>>)
    IN  [eng |-> [r.s EXCEPT !.w = <<>>], out |-> BatchCommit(r.s.w), cuts |-> r.cuts]

\* Mutant of R2Emit: the write is left for a later commit.
R2EmitNoSyn(r2_val) == <<Write("EV_ABS", "ABS_RZ", r2_val)>>

\* What the hidraw branch sends for an accepted reading.
R2Emit(r2_val) == <<Write("EV_ABS", "ABS_RZ", r2_val), Syn>>

\* The hidraw branch for data that was read.
HidrawHandler(eng, data) ==
    LET raw_rx == parse_report6(data)
    IN  IF raw_rx = None THEN [eng |-> eng, out |-> <<>>]
        ELSE LET r2_val == centered_u16_to_trigger(raw_rx[1], R2_MAX)
             IN  IF r2_val # eng.last_r2
                 THEN [eng |-> [eng EXCEPT !.last_r2 = r2_val], out |-> R2Emit(r2_val)]
                 ELSE [eng |-> eng, out |-> <<>>]

(* ------------------------------- State -------------------------------- *)

\* main()'s locals as one record (w: the writes queued by the running
\* handler, empty between handlers).
Eng ==
    [last_stick |-> last_stick, last_l2 |-> last_l2, last_r2 |-> last_r2,
     hat_x |-> hat_x, hat_y |-> hat_y, last_dpad |-> last_dpad, w |-> <<>>]

SetEng(e) ==
    /\ last_stick' = e.last_stick
    /\ last_l2' = e.last_l2
    /\ last_r2' = e.last_r2
    /\ hat_x' = e.hat_x
    /\ hat_y' = e.hat_y
    /\ last_dpad' = e.last_dpad

\* The state when the loop is first entered: make_uinput() has run.
Init ==
    /\ last_stick = <<>>
    /\ last_l2 = 0
    /\ last_r2 = 0
    /\ hat_x = 0
    /\ hat_y = 0
    /\ last_dpad = [b \in DPAD_BUTTONS |-> 0]
    /\ sink = StartupWrites
    /\ fed = <<>>

\* The history record of one wakeup.
Fed(src, nodata, batch, data, cuts) ==
    [src |-> src, nodata |-> nodata, batch |-> batch, data |-> data,
     cuts |-> cuts, pre |-> Eng, at |-> Len(sink)]

\* select() reports evdev ready and dev.read() returns batch.
EvdevWakeup(batch) ==
    LET h == EvdevHandler(Eng, batch)
    IN  /\ SetEng(h.eng)
        /\ sink' = sink \o h.out
        /\ fed' = Append(fed, Fed("evdev", FALSE, batch, <<>>, h.cuts))

\* Mutant of EvdevNoData: the branch falls through to its trailing commit.
EvdevNoDataCommits ==
    /\ fed' = Append(fed, Fed("evdev", TRUE, <<>>, <<>>, <<>>))
    /\ sink' = Append(sink, Syn)
    /\ UNCHANGED <<last_stick, last_l2, last_r2, hat_x, hat_y, last_dpad>>

\* select() reports evdev ready and dev.read() raises BlockingIOError.
EvdevNoData ==
    /\ fed' = Append(fed, Fed("evdev", TRUE, <<>>, <<>>, <<>>))
    /\ UNCHANGED <<last_stick, last_l2, last_r2, hat_x, hat_y, last_dpad, sink>>

\* select() reports hidraw ready and os.read() returns data.
HidrawWakeup(data) ==
    LET h == HidrawHandler(Eng, data)
    IN  /\ SetEng(h.eng)
        /\ sink' = sink \o h.out
        /\ fed' = Append(fed, Fed("hidraw", FALSE, <<>>, data, <<>>))

\* select() reports hidraw ready and os.read() raises BlockingIOError.
HidrawNoData ==
    /\ fed' = Append(fed, Fed("hidraw", TRUE, <<>>, <<>>, <<>>))
    /\ UNCHANGED <<last_stick, last_l2, last_r2, hat_x, hat_y, last_dpad, sink>>

(* ------------------------------ Inputs -------------------------------- *)

\* A report of n bytes: type byte b0, the u16 raw little-endian at RX_OFFSET
\* (when the report is long enough to hold it), every other byte 0.
MkReport(n, b0, raw) ==
    [i \in 1..n |-> IF i = 1 THEN b0
                    ELSE IF i = RX_OFFSET + 1 THEN raw % 256
                    ELSE IF i = RX_OFFSET + 2 THEN raw \div 256
                    ELSE 0]

\* The input consumed so far: one unit per wakeup plus one per event read.
RECURSIVE Consumed(_)
Consumed(h) == IF h = <<>> THEN 0 ELSE 1 + Len(h[Len(h)].batch) + Consumed(SubSeq(h, 1, Len(h) - 1))

\* Bound on the input consumed in a run of Spec.
MaxInput == 4

\* Events of every dispatch branch: a remapped key, keys absent from the
\* table (two of them virtual buttons, one not), both sticks, the left
\* trigger, the ignored axis, the hat, an axis with no branch and a
\* non-key, non-axis event.
GenEvents ==
    { Ev("EV_KEY", "BTN_WEST", 1), Ev("EV_KEY", "BTN_START", 1),
      Ev("EV_KEY", "BTN_DPAD_LEFT", 1), Ev("EV_KEY", "BTN_THUMB", 1),
      Ev("EV_ABS", "ABS_X", 4000), Ev("EV_ABS", "ABS_X", 0),
      Ev("EV_ABS", "ABS_Z", 3000), Ev("EV_ABS", "ABS_RZ", -1500),
      Ev("EV_ABS", "ABS_RX", 512), Ev("EV_ABS", "ABS_RY", 77),
      Ev("EV_ABS", "ABS_HAT0X", -1), Ev("EV_ABS", "ABS_HAT0X", 0),
      Ev("EV_ABS", "ABS_MISC", 1), Ev("EV_SYN", "SYN_REPORT", 0) }

\* Reports: valid ones at rest and fully pressed, a wrong type, a short one
\* and an empty read.
GenReports ==
    { MkReport(64, 6, 32768), MkReport(14, 6, 65535),
      MkReport(64, 1, 65535), MkReport(13, 6, 65535), <<>> }

\* The input a run of Spec may still consume.
Budget == MaxInput - Consumed(fed)

Next ==
    \/ \E n \in 0..(Budget - 1) : \E batch \in [1..n -> GenEvents] :
          EvdevWakeup(batch)
    \/ \E data \in GenReports :
          /\ Budget > 0
          /\ HidrawWakeup(data)
    \/ Budget > 0 /\ EvdevNoData
    \/ Budget > 0 /\ HidrawNoData

Spec == Init /\ [][Next]_vars

(* --------------------------- Reading the history ---------------------- *)

Wakeups == 1..Len(fed)

\* The engine state and the sink length after wakeup i's handler returned.
PostEng(i) == IF i < Len(fed) THEN fed[i + 1].pre ELSE Eng
SinkEnd(i) == IF i < Len(fed) THEN fed[i + 1].at ELSE Len(sink)

\* What wakeup i's handler sent to the sink.
Seg(i) == SubSeq(sink, fed[i].at + 1, SinkEnd(i))

RECURSIVE SumTo(_, _)
SumTo(s, n) == IF n = 0 THEN 0 ELSE s[n] + SumTo(s, n - 1)

\* The writes event j of evdev wakeup i queued.
EventWrites(i, j) ==
    LET from == fed[i].at + SumTo(fed[i].cuts, j - 1)
    IN  SubSeq(sink, from + 1, from + fed[i].cuts[j])

(* ------------------------------ SpecKeys ------------------------------ *)

\* Every code of the table's domain, the virtual buttons outside it, and
\* two codes that are neither; pressed and released.
KeyCodes ==
    DOMAIN BUTTON_REMAP \cup VIRTUAL_BUTTONS \cup {"BTN_THUMB", "BTN_TRIGGER_HAPPY1"}

KeyEvents == { Ev("EV_KEY", c, v) : c \in KeyCodes, v \in {0, 1} }

\* Bound on the input consumed in a run of SpecKeys.
MaxKeyInput == 3

NextKeys ==
    \E n \in 0..(MaxKeyInput - Consumed(fed) - 1) : \E batch \in [1..n -> KeyEvents] :
        EvdevWakeup(batch)

SpecKeys == Init /\ [][NextKeys]_vars

(* -------------------------------- C1 ---------------------------------- *)

\* C1: every key event whose code is in the domain of BUTTON_REMAP
\* produces exactly one write: an EV_KEY write of the table's image of the
\* code (one lookup) with the event's value.
C1_RemapOneWrite ==
    \A i \in Wakeups : \A j \in 1..Len(fed[i].batch) :
        LET ev == fed[i].batch[j]
        IN  (ev.type = "EV_KEY" /\ ev.code \in DOMAIN BUTTON_REMAP)
            => EventWrites(i, j) = <<Write("EV_KEY", BUTTON_REMAP[ev.code], ev.value)>>

\* BTN_WEST pressed after another event of the batch, forwarded as BTN_TL.
C1_Witness ==
    \E i \in Wakeups :
        /\ Len(fed[i].batch) = 2
        /\ fed[i].batch[2] = Ev("EV_KEY", "BTN_WEST", 1)
        /\ EventWrites(i, 2) = <<Write("EV_KEY", "BTN_TL", 1)>>

(* -------------------------------- C2 ---------------------------------- *)

\* The engine state main() starts the loop with.
InitEng ==
    [last_stick |-> <<>>, last_l2 |-> 0, last_r2 |-> 0, hat_x |-> 0, hat_y |-> 0,
     last_dpad |-> [b \in DPAD_BUTTONS |-> 0], w |-> <<>>]

OnlyKeys(batch) == \A j \in 1..Len(batch) : batch[j].type = "EV_KEY"

\* C2 as stated: a key event whose code is absent from the remap table
\* produces no write.
C2_AbsentDropped ==
    \A i \in Wakeups : \A j \in 1..Len(fed[i].batch) :
        LET ev == fed[i].batch[j]
        IN  (ev.type = "EV_KEY" /\ ev.code \notin DOMAIN BUTTON_REMAP)
            => EventWrites(i, j) = <<>>

\* C2 amended: a key event whose code is absent from the remap table is
\* dropped with no write when the code is not a virtual button, and is
\* forwarded as one write of the same code and value when it is; key events
\* change no engine state.
C2_AbsentPassThrough ==
    \A i \in Wakeups :
        /\ \A j \in 1..Len(fed[i].batch) :
              LET ev == fed[i].batch[j]
              IN  (ev.type = "EV_KEY" /\ ev.code \notin DOMAIN BUTTON_REMAP)
                  => EventWrites(i, j) =
                        IF ev.code \in VIRTUAL_BUTTONS
                        THEN <<Write("EV_KEY", ev.code, ev.value)>>
                        ELSE <<>>
        /\ (fed[i].src = "evdev" /\ OnlyKeys(fed[i].batch)) => PostEng(i) = fed[i].pre

\* In a state other than the initial one, a batch in which BTN_THUMB is
\* dropped and BTN_START forwarded.
C2_Witness ==
    \E i \in Wakeups :
        /\ fed[i].pre # InitEng
        /\ fed[i].batch = <<Ev("EV_KEY", "BTN_THUMB", 1), Ev("EV_KEY", "BTN_START", 1)>>
        /\ Seg(i) = <<Write("EV_KEY", "BTN_START", 1), Syn>>
        /\ PostEng(i) = fed[i].pre

(* ------------------------------ SpecStick ----------------------------- *)

\* Every event read so far, in order, each with the writes it queued.
RECURSIVE EventLogFrom(_)
EventLogFrom(i) ==
    IF i > Len(fed) THEN <<>>
    ELSE [j \in 1..Len(fed[i].batch) |->
             [ev |-> fed[i].batch[j], writes |-> EventWrites(i, j)]]
         \o EventLogFrom(i + 1)

EventLog == EventLogFrom(1)

\* The EV_ABS events with the given input code, in order.
SamplesOf(code) ==
    SelectSeq(EventLog, LAMBDA x : x.ev.type = "EV_ABS" /\ x.ev.code = code)

Values(samples) == [k \in 1..Len(samples) |-> samples[k].ev.value]

\* The values written to an output EV_ABS channel since the loop started.
ChannelWrites(code) ==
    LET after == SubSeq(sink, Len(StartupWrites) + 1, Len(sink))
        hits == SelectSeq(after, LAMBDA x : x.op = "write" /\ x.type = "EV_ABS" /\ x.code = code)
    IN  [k \in 1..Len(hits) |-> hits[k].value]

\* The output stick axes, the evdev code each is fed from and its profile.
StickAxes == {"ABS_X", "ABS_Y", "ABS_RX", "ABS_RY"}

InputCode(axis) ==
    CASE axis = "ABS_X" -> "ABS_X"
      [] axis = "ABS_Y" -> "ABS_Y"
      [] axis = "ABS_RX" -> "ABS_Z"
      [] axis = "ABS_RY" -> "ABS_RZ"

Deadzone(axis) == IF axis \in {"ABS_RX", "ABS_RY"} THEN RIGHT_DEADZONE ELSE LEFT_DEADZONE

\* Samples of the left stick (at rest, inside the deadzone, two values 50
\* apart outside it) and of the right stick (at rest, inside its deadzone,
\* inside the left deadzone only).
StickEvents ==
    { Ev("EV_ABS", c, v) : c \in {"ABS_X", "ABS_Y"}, v \in {0, -3000, 4000, 4050} }
    \cup { Ev("EV_ABS", c, v) : c \in {"ABS_Z", "ABS_RZ"}, v \in {0, -1900, -3000} }

\* Bound on the number of stick samples in a run of SpecStick.
MaxSamples == 4

\* Each sample arrives in a batch of its own.
NextStick ==
    /\ Len(fed) < MaxSamples
    /\ \E ev \in StickEvents : EvdevWakeup(<<ev>>)

SpecStick == Init /\ [][NextStick]_vars

(* -------------------------------- C3 ---------------------------------- *)

Scenario3 == <<0, 4000, 4050, 0>>

\* C3 as stated: from the initial state the raw sequence [0, 4000, 4050, 0]
\* on a left-stick axis produces exactly two writes on that axis, 4000 and
\* the final 0.
C3_TwoWrites ==
    \A a \in {"ABS_X", "ABS_Y"} :
        Values(SamplesOf(a)) = Scenario3 => ChannelWrites(a) = <<4000, 0>>

\* C3 amended: the sequence produces exactly three writes on that axis: the
\* first 0 is written (the axis has no accepted value yet), 4000 is
\* written, 4050 is suppressed, the final 0 is written.
C3_ThreeWrites ==
    \A a \in {"ABS_X", "ABS_Y"} :
        LET s == SamplesOf(a)
        IN  Values(s) = Scenario3 =>
               /\ ChannelWrites(a) = <<0, 4000, 0>>
               /\ s[1].writes = <<Write("EV_ABS", a, 0)>>
               /\ s[2].writes = <<Write("EV_ABS", a, 4000)>>
               /\ s[3].writes = <<>>
               /\ s[4].writes = <<Write("EV_ABS", a, 0)>>

C3_Witness ==
    /\ Values(SamplesOf("ABS_X")) = Scenario3
    /\ ChannelWrites("ABS_X") = <<0, 4000, 0>>

(* -------------------------------- C4 ---------------------------------- *)

\* C4: on every stick axis, a first sample inside the axis's deadzone is
\* written as 0, and a second sample inside the deadzone right after it
\* produces no write.
C4_FirstZeroOnce ==
    \A a \in StickAxes :
        LET s == SamplesOf(InputCode(a))
        IN  (Len(s) >= 1 /\ Abs(s[1].ev.value) < Deadzone(a)) =>
               /\ s[1].writes = <<Write("EV_ABS", a, 0)>>
               /\ (Len(s) >= 2 /\ Abs(s[2].ev.value) < Deadzone(a)) => s[2].writes = <<>>

\* Both profiles: -3000 then 0 on the left stick, -1900 twice on the right.
C4_Witness ==
    /\ Values(SamplesOf("ABS_Y")) = <<-3000, 0>>
    /\ ChannelWrites("ABS_Y") = <<0>>
    /\ Values(SamplesOf("ABS_Z")) = <<-1900, -1900>>
    /\ ChannelWrites("ABS_RX") = <<0>>

(* -------------------------------- C5 ---------------------------------- *)

RECURSIVE Flatten(_)
Flatten(ss) == IF ss = <<>> THEN <<>> ELSE Head(ss) \o Flatten(Tail(ss))

NoRepeat(s) == \A k \in 1..(Len(s) - 1) : s[k] # s[k + 1]

\* The values the event loop wrote to an output button.
ButtonWrites(code) ==
    LET after == SubSeq(sink, Len(StartupWrites) + 1, Len(sink))
        hits == SelectSeq(after, LAMBDA x : x.op = "write" /\ x.type = "EV_KEY" /\ x.code = code)
    IN  [k \in 1..Len(hits) |-> hits[k].value]

\* The values the hat events (the d-pad synthesizer) wrote to a button.
HatWrites(code) ==
    LET hats == SelectSeq(EventLog, LAMBDA x : x.ev.type = "EV_ABS"
                                        /\ x.ev.code \in {"ABS_HAT0X", "ABS_HAT0Y"})
        ws == Flatten([k \in 1..Len(hats) |-> hats[k].writes])
        hits == SelectSeq(ws, LAMBDA x : x.code = code)
    IN  [k \in 1..Len(hits) |-> hits[k].value]

\* C5 as stated (of the writes the event loop issues): no write to an
\* output stick channel or to an output d-pad button carries the value of
\* the previous write to that channel.
C5_NoRepeatedWrite ==
    /\ \A a \in StickAxes : NoRepeat(ChannelWrites(a))
    /\ \A b \in DPAD_BUTTONS : NoRepeat(ButtonWrites(b))

\* C5 amended: no write of the axis filter to a stick channel carries the
\* value of the previous write of the loop to that channel, no write of the
\* d-pad synthesizer carries the value of its previous write to that button,
\* and the same raw stick value twice in a row never produces a second
\* write.  (Key events with a BTN_DPAD_* code are written through and may
\* repeat a value.)
C5_NoRepeatedFilterWrite ==
    /\ \A a \in StickAxes :
          /\ NoRepeat(ChannelWrites(a))
          /\ LET s == SamplesOf(InputCode(a))
             IN  \A k \in 1..(Len(s) - 1) :
                    s[k].ev.value = s[k + 1].ev.value => s[k + 1].writes = <<>>
    /\ \A b \in DPAD_BUTTONS : NoRepeat(HatWrites(b))

\* One batch: the hat pushed left, then the same raw value twice (one write).
C5_Witness ==
    \E i \in Wakeups :
        /\ fed[i].batch = <<Ev("EV_ABS", "ABS_HAT0X", -1), Ev("EV_ABS", "ABS_X", 4000),
                            Ev("EV_ABS", "ABS_X", 4000)>>
        /\ Seg(i) = <<Write("EV_KEY", "BTN_DPAD_LEFT", 1),
                      Write("EV_ABS", "ABS_X", 4000), Syn>>

(* ------------------------------ SpecDecode ---------------------------- *)

\* The u16 a report carries at RX_OFFSET.
RawOf(data) == data[RX_OFFSET + 1] + 256 * data[RX_OFFSET + 2]

\* The first report read is a valid one carrying any 16-bit reading.
NextDecode ==
    /\ fed = <<>>
    /\ \E raw \in 0..65535 : HidrawWakeup(MkReport(REPORT_MIN_LEN, REPORT_ID, raw))

SpecDecode == Init /\ [][NextDecode]_vars

(* -------------------------------- C6 ---------------------------------- *)

\* C6: with last_r2 = 0 before it, the first valid report leaves in
\* last_r2 the decoded value d of its reading v.  d is 0 for v < 0x8000 and
\* at v = 0x8000, is 1023 at v = 0xFFFF, lies in 0..1023, is the integer
\* nearest to (v - 0x8000) * 1023 / 0x7FFF for v >= 0x8000, and does not
\* exceed the decoded value of v + 1.
C6_DecodeExact ==
    (Len(fed) = 1 /\ fed[1].src = "hidraw") =>
        LET v == RawOf(fed[1].data)
            d == last_r2
        IN  /\ d \in 0..1023
            /\ v < 32768 => d = 0
            /\ v = 32768 => d = 0
            /\ v = 65535 => d = 1023
            /\ v >= 32768 => 2 * Abs(d * 32767 - (v - 32768) * 1023) <= 32767
            /\ (v >= 32768 /\ v < 65535) => d <= centered_u16_to_trigger(v + 1, 1023)
            /\ sink = StartupWrites \o (IF d = 0 THEN <<>> ELSE <<Write("EV_ABS", "ABS_RZ", d), Syn>>)

C6_Witness ==
    /\ Len(fed) = 1
    /\ RawOf(fed[1].data) = 49152
    /\ last_r2 = 512
    /\ sink[Len(sink) - 1] = Write("EV_ABS", "ABS_RZ", 512)

(* -------------------------------- C7 ---------------------------------- *)

\* A report the hidraw handler has to ignore.
Ignorable(data) == Len(data) = 0 \/ Len(data) < 14 \/ data[1] # 6

\* C7: a report that is empty, shorter than 14 bytes or not of type 0x06
\* causes no write and no commit and leaves the engine state, last_r2
\* included, as it was.
C7_BadReportIgnored ==
    \A i \in Wakeups :
        (fed[i].src = "hidraw" /\ ~fed[i].nodata /\ Ignorable(fed[i].data))
        => /\ Seg(i) = <<>>
           /\ PostEng(i) = fed[i].pre

\* With the trigger pressed: a short report and a report of another type
\* ignored, the trigger still at 1023.
C7_Witness ==
    \E i \in Wakeups : \E k \in Wakeups :
        /\ i < k
        /\ fed[i].pre.last_r2 = 1023
        /\ fed[i].data = MkReport(13, 6, 65535)
        /\ fed[k].data = MkReport(64, 1, 65535)
        /\ last_r2 = 1023
        /\ SinkEnd(k) = fed[i].at

(* ----------------------------- SpecTrigger ---------------------------- *)

\* Valid reports of both lengths seen in use: at rest, just above rest
\* (decoded 0), half pressed twice over (both decoded 512), fully pressed;
\* and the reports to ignore.
TriggerReports ==
    { MkReport(64, 6, raw) : raw \in {32768, 32784, 49152, 49153, 65535} }
    \cup { MkReport(14, 6, 0), MkReport(64, 1, 65535), MkReport(13, 6, 65535), <<>> }

\* Batches read between the reports: the left trigger, and the evdev axis
\* that shares the code ABS_RZ with the output right trigger.
TriggerBatches == { <<Ev("EV_ABS", "ABS_RX", 512)>>, <<Ev("EV_ABS", "ABS_RZ", 4000)>> }

\* Bound on the number of wakeups in a run of SpecTrigger.
MaxReports == 3

NextTrigger ==
    \/ Len(fed) < MaxReports /\ \E data \in TriggerReports : HidrawWakeup(data)
    \/ Len(fed) < MaxReports /\ \E batch \in TriggerBatches : EvdevWakeup(batch)

SpecTrigger == Init /\ [][NextTrigger]_vars

(* -------------------------------- C8 ---------------------------------- *)

\* C8: for a valid report the hidraw handler sends the decoded value to
\* ABS_RZ, followed at once by one commit, when the value differs from the
\* last one emitted, and sends nothing when it does not; the value becomes
\* the last one emitted.  Every write to ABS_RZ in the loop is followed at
\* once by a commit.  From the initial state 0x8000 gives no write and
\* 0xFFFF one write of 1023 and a commit.
C8_R2WriteThenCommit ==
    /\ \A i \in Wakeups :
          (fed[i].src = "hidraw" /\ ~fed[i].nodata /\ ~Ignorable(fed[i].data))
          => LET d == centered_u16_to_trigger(RawOf(fed[i].data), 1023)
             IN  /\ Seg(i) = IF d # fed[i].pre.last_r2
                             THEN <<Write("EV_ABS", "ABS_RZ", d), Syn>>
                             ELSE <<>>
                 /\ PostEng(i).last_r2 = d
    /\ \A k \in (Len(StartupWrites) + 1)..Len(sink) :
          (sink[k].op = "write" /\ sink[k].type = "EV_ABS" /\ sink[k].code = "ABS_RZ")
          => (k < Len(sink) /\ sink[k + 1] = Syn)
    /\ (Len(fed) >= 1 /\ fed[1].data = MkReport(64, 6, 32768)) => Seg(1) = <<>>
    /\ (Len(fed) >= 1 /\ fed[1].data = MkReport(64, 6, 65535))
          => Seg(1) = <<Write("EV_ABS", "ABS_RZ", 1023), Syn>>

\* Fully pressed (a write and a commit), half pressed (a write and a
\* commit), then another reading that decodes to the same value (nothing).
C8_Witness ==
    /\ Len(fed) = 3
    /\ fed[1].data = MkReport(64, 6, 65535)
    /\ fed[2].data = MkReport(64, 6, 49152)
    /\ fed[3].data = MkReport(64, 6, 49153)
    /\ sink = StartupWrites \o <<Write("EV_ABS", "ABS_RZ", 1023), Syn,
                                 Write("EV_ABS", "ABS_RZ", 512), Syn>>

(* -------------------------------- C9 ---------------------------------- *)

\* C9: what the handler of a batch that was read sends is the writes of
\* the batch's events, in order, followed by exactly one commit; no commit
\* stands between two of the writes, whatever their number.
C9_OneCommitPerBatch ==
    \A i \in Wakeups :
        (fed[i].src = "evdev" /\ ~fed[i].nodata)
        => LET seg == Seg(i)
               n == Len(fed[i].batch)
           IN  /\ Len(fed[i].cuts) = n
               /\ Len(seg) = SumTo(fed[i].cuts, n) + 1
               /\ seg[Len(seg)] = Syn
               /\ \A k \in 1..(Len(seg) - 1) : seg[k].op = "write"

\* A batch with no write and a batch with two writes, one commit each.
C9_Witness ==
    \E i \in Wakeups : \E k \in Wakeups :
        /\ fed[i].src = "evdev" /\ ~fed[i].nodata /\ Seg(i) = <<Syn>>
        /\ fed[k].src = "evdev" /\ Len(Seg(k)) = 3 /\ Seg(k)[3] = Syn

(* ------------------------------- SpecHat ------------------------------ *)

HatValues == {-1, 0, 1}

\* A hat update (x, y): both hat axes in one batch.
HatUpdate(x, y) == <<Ev("EV_ABS", "ABS_HAT0X", x), Ev("EV_ABS", "ABS_HAT0Y", y)>>

\* Hat updates of both axes, updates of one axis, and a d-pad code arriving
\* as a key between them.
HatBatches ==
    { HatUpdate(x, y) : x \in HatValues, y \in HatValues }
    \cup { <<Ev("EV_ABS", "ABS_HAT0X", x)>> : x \in HatValues }
    \cup { <<Ev("EV_KEY", "BTN_DPAD_LEFT", 1)>> }

\* Bound on the number of wakeups in a run of SpecHat.
MaxHatUpdates == 4

NextHat ==
    /\ Len(fed) < MaxHatUpdates
    /\ \E batch \in HatBatches : EvdevWakeup(batch)

SpecHat == Init /\ [][NextHat]_vars

(* -------------------------------- C10 --------------------------------- *)

OnlyHat(batch) ==
    /\ batch # <<>>
    /\ \A j \in 1..Len(batch) :
          batch[j].type = "EV_ABS" /\ batch[j].code \in {"ABS_HAT0X", "ABS_HAT0Y"}

\* The four booleans derived from a hat position.
Derived(x, y) ==
    [b \in DPAD_BUTTONS |->
        IF \/ b = "BTN_DPAD_LEFT" /\ x = -1
           \/ b = "BTN_DPAD_RIGHT" /\ x = 1
           \/ b = "BTN_DPAD_UP" /\ y = -1
           \/ b = "BTN_DPAD_DOWN" /\ y = 1
        THEN 1 ELSE 0]

Scenario10 == <<HatUpdate(0, 0), HatUpdate(-1, 0), HatUpdate(-1, 0), HatUpdate(0, 0)>>

\* C10: a hat update writes exactly the d-pad buttons whose derived state
\* differs from the state last sent (last_dpad), each once with its derived
\* state, so an update that changes none of the four writes nothing; the
\* updates (0,0), (-1,0), (-1,0), (0,0) from the initial state give two
\* writes, left = 1 then left = 0.
C10_HatDiffOnly ==
    /\ \A i \in Wakeups :
          OnlyHat(fed[i].batch) =>
             LET old == Derived(fed[i].pre.hat_x, fed[i].pre.hat_y)
                 new == Derived(PostEng(i).hat_x, PostEng(i).hat_y)
                 sent == fed[i].pre.last_dpad
                 ws == SubSeq(Seg(i), 1, Len(Seg(i)) - 1)
             IN  /\ { ws[k] : k \in 1..Len(ws) }
                      = { Write("EV_KEY", b, new[b]) : b \in { c \in DPAD_BUTTONS : new[c] # sent[c] } }
                 /\ Len(ws) = Cardinality({ c \in DPAD_BUTTONS : new[c] # sent[c] })
                 /\ new = old => ws = <<>>
    /\ [k \in Wakeups |-> fed[k].batch] = Scenario10
          => SubSeq(sink, Len(StartupWrites) + 1, Len(sink))
                = <<Syn, Write("EV_KEY", "BTN_DPAD_LEFT", 1), Syn, Syn,
                    Write("EV_KEY", "BTN_DPAD_LEFT", 0), Syn>>

C10_Witness ==
    /\ [k \in Wakeups |-> fed[k].batch] = Scenario10
    /\ ButtonWrites("BTN_DPAD_LEFT") = <<1, 0>>
    /\ Seg(3) = <<Syn>>

(* -------------------------------- C11 --------------------------------- *)

\* Every write the hat events (the d-pad synthesizer) made, in order.
SynthWrites ==
    LET hats == SelectSeq(EventLog, LAMBDA x : x.ev.type = "EV_ABS"
                                        /\ x.ev.code \in {"ABS_HAT0X", "ABS_HAT0Y"})
    IN  Flatten([k \in 1..Len(hats) |-> hats[k].writes])

\* The state last sent for a button among the writes ws: the last write to
\* it, or the released state the buttons start in.
LastSent(ws, b) ==
    LET hw == SelectSeq(ws, LAMBDA x : x.code = b)
    IN  IF hw = <<>> THEN 0 ELSE hw[Len(hw)].value

\* C11: once the hat events of a batch have been processed (so at every
\* frame commit) the d-pad state last sent by the synthesizer, which is the
\* state it remembers in last_dpad, equals the state derived from the
\* current hat position: left iff hat-X = -1, right iff hat-X = 1, up iff
\* hat-Y = -1, down iff hat-Y = 1; so left and right are never both on, nor
\* up and down.
C11_DpadTracksHat ==
    LET ws == SynthWrites
        sent == [b \in DPAD_BUTTONS |-> LastSent(ws, b)]
    IN  /\ last_dpad = Derived(hat_x, hat_y)
        /\ sent = last_dpad
        /\ sent["BTN_DPAD_LEFT"] = 1 <=> hat_x = -1
        /\ sent["BTN_DPAD_RIGHT"] = 1 <=> hat_x = 1
        /\ sent["BTN_DPAD_UP"] = 1 <=> hat_y = -1
        /\ sent["BTN_DPAD_DOWN"] = 1 <=> hat_y = 1
        /\ ~(sent["BTN_DPAD_LEFT"] = 1 /\ sent["BTN_DPAD_RIGHT"] = 1)
        /\ ~(sent["BTN_DPAD_UP"] = 1 /\ sent["BTN_DPAD_DOWN"] = 1)

\* The hat went from left-up to right-down: left and up were sent on, then
\* off, and right and down are on.
C11_Witness ==
    /\ hat_x = 1 /\ hat_y = 1
    /\ HatWrites("BTN_DPAD_LEFT") = <<1, 0>>
    /\ HatWrites("BTN_DPAD_UP") = <<1, 0>>
    /\ HatWrites("BTN_DPAD_RIGHT") = <<1>>
    /\ HatWrites("BTN_DPAD_DOWN") = <<1>>
    /\ sink[Len(sink)] = Syn

(* ----------------------------- SpecAnalog ---------------------------- *)

\* Both ends of the signed 16-bit range on every stick input, left-trigger
\* values at both ends of 0..1023 and inside it, and valid reports whose
\* raw reading is at both ends of the 16-bit range, at rest and half way.
AnalogEvents ==
    { Ev("EV_ABS", c, v) : c \in {"ABS_X", "ABS_Y", "ABS_Z", "ABS_RZ"}, v \in {-32768, 32767} }
    \cup { Ev("EV_ABS", "ABS_RX", v) : v \in {0, 1, 512, 1023} }

AnalogReports == { MkReport(REPORT_MIN_LEN, REPORT_ID, raw) : raw \in {0, 32768, 49152, 65535} }

\* Bound on the number of wakeups in a run of SpecAnalog.
MaxAnalog == 3

NextAnalog ==
    \/ Len(fed) < MaxAnalog /\ \E ev \in AnalogEvents : EvdevWakeup(<<ev>>)
    \/ Len(fed) < MaxAnalog /\ \E data \in AnalogReports : HidrawWakeup(data)

SpecAnalog == Init /\ [][NextAnalog]_vars

(* -------------------------------- C12 --------------------------------- *)

\* The inputs of the claim: stick samples within the signed 16-bit range,
\* left-trigger values within 0..1023, reports of any content.
InputsInRange ==
    \A k \in 1..Len(EventLog) :
        LET ev == EventLog[k].ev
        IN  ev.type = "EV_ABS" =>
               /\ ev.code \in {"ABS_X", "ABS_Y", "ABS_Z", "ABS_RZ"} => ev.value \in -32768..32767
               /\ ev.code = "ABS_RX" => ev.value \in 0..1023

\* C12: with stick inputs in the signed 16-bit range and left-trigger
\* inputs in 0..1023 (any 16-bit raw right-trigger reading), every value
\* written to an output stick channel lies in -32768..32767 and every value
\* written to ABS_Z or ABS_RZ lies in 0..1023, the ranges the virtual
\* device declares for them.
C12_WritesInRange ==
    InputsInRange =>
        \A k \in 1..Len(sink) :
            (sink[k].op = "write" /\ sink[k].type = "EV_ABS") =>
               /\ sink[k].code \in StickAxes => sink[k].value \in -32768..32767
               /\ sink[k].code \in {"ABS_Z", "ABS_RZ"} => sink[k].value \in 0..1023
               /\ sink[k].code \in DOMAIN AbsCap
               /\ sink[k].value \in AbsCap[sink[k].code].min..AbsCap[sink[k].code].max

\* A raw reading of 0 (below centre) leaves the right trigger at 0 after a
\* full press, and both ends of the stick and left-trigger ranges were
\* written.
C12_Witness ==
    /\ Len(fed) = 3
    /\ fed[3].src = "hidraw" /\ RawOf(fed[3].data) = 0
    /\ ChannelWrites("ABS_RZ") = <<1023, 0>>
    /\ \/ ChannelWrites("ABS_RX") = <<-32768>>
       \/ ChannelWrites("ABS_Z") = <<1023>>
       \/ ChannelWrites("ABS_Y") = <<32767>>

(* -------------------------------- C13 --------------------------------- *)

\* The "Hardware mapping" of the module docstring: the virtual axis each
\* evdev axis is said to feed.
DocMapping ==
    [c \in {"ABS_X"} |-> "ABS_X"] @@ [c \in {"ABS_Y"} |-> "ABS_Y"]
    @@ [c \in {"ABS_RX"} |-> "ABS_Z"]
    @@ [c \in {"ABS_Z"} |-> "ABS_RY"] @@ [c \in {"ABS_RZ"} |-> "ABS_RX"]

\* C13 as stated: the event loop implements the docstring's mapping: what
\* an evdev ABS_Z event writes goes to virtual ABS_RY and what an evdev
\* ABS_RZ event writes goes to virtual ABS_RX, evdev ABS_RX goes to virtual
\* ABS_Z and evdev ABS_X / ABS_Y to virtual ABS_X / ABS_Y.
C13_DocstringMapping ==
    \A k \in 1..Len(EventLog) :
        LET ev == EventLog[k].ev
            ws == EventLog[k].writes
        IN  (ev.type = "EV_ABS" /\ ev.code \in DOMAIN DocMapping) =>
               \A n \in 1..Len(ws) : ws[n].type = "EV_ABS" /\ ws[n].code = DocMapping[ev.code]

(* -------------------------------- C14 --------------------------------- *)

HatAxes == {"ABS_HAT0X", "ABS_HAT0Y"}

\* The positions of the sink that hold a write to a hat axis.
HatAxisWrites ==
    { k \in 1..Len(sink) :
        sink[k].op = "write" /\ sink[k].type = "EV_ABS" /\ sink[k].code \in HatAxes }

\* C14 as stated: the hat axes are not in the declared output capability
\* set and no write to either is ever in the sink, at startup or after any
\* sequence of events.
C14_NoHatAxis ==
    /\ HatAxes \cap DOMAIN AbsCap = {}
    /\ HatAxisWrites = {}

\* C14 amended: the virtual device declares both hat axes and the startup
\* writes set each to 0 once; the event loop never writes to either: a hat
\* event writes nothing but d-pad buttons, so the hat position reaches the
\* output only as the four d-pad buttons.
C14_HatAxisOnlyAtStartup ==
    /\ HatAxes \subseteq DOMAIN AbsCap
    /\ HatAxisWrites \subseteq 1..Len(StartupWrites)
    /\ Cardinality(HatAxisWrites) = 2
    /\ \A k \in HatAxisWrites : sink[k].value = 0
    /\ \A i \in Wakeups : \A j \in 1..Len(fed[i].batch) :
          LET ev == fed[i].batch[j]
              ws == EventWrites(i, j)
          IN  (ev.type = "EV_ABS" /\ ev.code \in HatAxes) =>
                 \A n \in 1..Len(ws) : ws[n].type = "EV_KEY" /\ ws[n].code \in DPAD_BUTTONS

\* The hat moved on both axes and came back on one: three button writes,
\* and the hat axes still hold nothing but their startup writes.
C14_Witness ==
    /\ hat_x = 0 /\ hat_y = -1
    /\ HatWrites("BTN_DPAD_LEFT") = <<1, 0>>
    /\ HatWrites("BTN_DPAD_UP") = <<1>>
    /\ ChannelWrites("ABS_HAT0X") = <<>>
    /\ ChannelWrites("ABS_HAT0Y") = <<>>
    /\ HatAxisWrites = {7, 8}

(* -------------------------------- C15 --------------------------------- *)

\* The writes of a sequence of sink calls that go to one output code.
OnChannel(ws, code) == SelectSeq(ws, LAMBDA x : x.op = "write" /\ x.code = code)

Codes(ws) == { ws[k].code : k \in { n \in 1..Len(ws) : ws[n].op = "write" } }

\* What handling the same report and the same batch gives from engine state
\* pre, in either order: the final engine state and everything sent.
HidrawFirst(pre, data, batch) ==
    LET h == HidrawHandler(pre, data)
        v == EvdevHandler(h.eng, batch)
    IN  [eng |-> v.eng, out |-> h.out \o v.out]

EvdevFirst(pre, data, batch) ==
    LET v == EvdevHandler(pre, batch)
        h == HidrawHandler(v.eng, data)
    IN  [eng |-> h.eng, out |-> v.out \o h.out]

\* C15: the two transports carry disjoint channels: only the hidraw
\* handler writes ABS_RZ and last_r2, and it writes nothing else; every
\* other output channel and the rest of the engine state are written only
\* by the evdev handler.  So a report and a batch handled one after the
\* other leave the engine state and the sequence of writes on every output
\* channel that the opposite order would have left.
C15_DisjointChannels ==
    /\ \A i \in Wakeups :
          /\ fed[i].src = "hidraw" =>
                /\ Codes(Seg(i)) \subseteq {"ABS_RZ"}
                /\ PostEng(i) = [fed[i].pre EXCEPT !.last_r2 = PostEng(i).last_r2]
          /\ fed[i].src = "evdev" =>
                /\ "ABS_RZ" \notin Codes(Seg(i))
                /\ PostEng(i).last_r2 = fed[i].pre.last_r2
    /\ \A i \in Wakeups :
          (i + 1 \in Wakeups /\ ~fed[i].nodata /\ ~fed[i + 1].nodata
             /\ fed[i].src # fed[i + 1].src) =>
             LET hid == IF fed[i].src = "hidraw" THEN i ELSE i + 1
                 evd == IF fed[i].src = "evdev" THEN i ELSE i + 1
                 done == Seg(i) \o Seg(i + 1)
                 other == IF hid = i
                          THEN EvdevFirst(fed[i].pre, fed[hid].data, fed[evd].batch)
                          ELSE HidrawFirst(fed[i].pre, fed[hid].data, fed[evd].batch)
             IN  /\ other.eng = PostEng(i + 1)
                 /\ Codes(other.out) = Codes(done)
                 /\ \A c \in Codes(done) : OnChannel(other.out, c) = OnChannel(done, c)

\* A report that moves the right trigger, then a batch that writes the
\* left trigger and a button.
C15_Witness ==
    /\ Len(fed) = 2
    /\ fed[1].src = "hidraw" /\ Seg(1) = <<Write("EV_ABS", "ABS_RZ", 1023), Syn>>
    /\ fed[2].src = "evdev"
    /\ Seg(2) = <<Write("EV_ABS", "ABS_Z", 512), Write("EV_KEY", "BTN_TL", 1), Syn>>
    /\ last_r2 = 1023 /\ last_l2 = 512

(* ----------------------------- SpecJitter ---------------------------- *)

\* Left-stick samples at rest, just inside the deadzone, and outside it
\* 299, 300 and 1 apart and on the other side; right-stick samples at rest
\* and outside its deadzone 299, 300 and 1 apart.
JitterEvents ==
    { Ev("EV_ABS", "ABS_X", v) : v \in {0, 3400, 3600, 3899, 3900, -3600} }
    \cup { Ev("EV_ABS", "ABS_RZ", v) : v \in {0, 2100, 2399, 2400} }

\* Bound on the number of stick samples in a run of SpecJitter.
MaxJitterSamples == 4

\* Each sample arrives in a batch of its own.
NextJitter ==
    /\ Len(fed) < MaxJitterSamples
    /\ \E ev \in JitterEvents : EvdevWakeup(<<ev>>)

SpecJitter == Init /\ [][NextJitter]_vars

\* The output axis an evdev stick code feeds, its jitter threshold, and the
\* value a raw sample has after the deadzone.
OutAxis(code) == CHOOSE a \in StickAxes : InputCode(a) = code

Jitter(axis) == IF axis \in {"ABS_RX", "ABS_RY"} THEN RIGHT_JITTER ELSE LEFT_JITTER

PostDeadzone(axis, raw) == IF Abs(raw) < Deadzone(axis) THEN 0 ELSE raw

\* Wakeup i read exactly one stick sample.
StickSample(i) ==
    /\ Len(fed[i].batch) = 1
    /\ fed[i].batch[1].type = "EV_ABS"
    /\ fed[i].batch[1].code \in { InputCode(a) : a \in StickAxes }

(* -------------------------------- C16 --------------------------------- *)

\* C16: a stick sample is suppressed exactly when its axis has a previous
\* accepted value and either (a) the post-deadzone value is nonzero and
\* differs from that value by less than the jitter threshold (300), or (b)
\* the post-deadzone value and that value are both zero; otherwise it is
\* accepted, stored and written.  Hence two consecutive accepted values on
\* an axis, the later one nonzero, differ by at least the threshold.
C16_SuppressedExactlyWhen ==
    /\ \A i \in Wakeups :
          StickSample(i) =>
             LET a == OutAxis(fed[i].batch[1].code)
                 v == PostDeadzone(a, fed[i].batch[1].value)
                 prev == fed[i].pre.last_stick
                 suppressed ==
                     /\ a \in DOMAIN prev
                     /\ \/ v # 0 /\ Abs(v - prev[a]) < 300
                        \/ v = 0 /\ prev[a] = 0
             IN  /\ Jitter(a) = 300
                 /\ suppressed =>
                       /\ EventWrites(i, 1) = <<>>
                       /\ PostEng(i).last_stick = prev
                 /\ ~suppressed =>
                       /\ EventWrites(i, 1) = <<Write("EV_ABS", a, v)>>
                       /\ a \in DOMAIN PostEng(i).last_stick
                       /\ PostEng(i).last_stick[a] = v
    /\ \A a \in StickAxes :
          LET acc == ChannelWrites(a)
          IN  \A k \in 1..(Len(acc) - 1) :
                 acc[k + 1] # 0 => Abs(acc[k + 1] - acc[k]) >= 300

\* 3600 accepted, 3900 accepted (300 away), 3899 suppressed (1 away), the
\* return to rest accepted.
C16_Witness ==
    /\ Values(SamplesOf("ABS_X")) = <<3600, 3900, 3899, 0>>
    /\ ChannelWrites("ABS_X") = <<3600, 3900, 0>>
    /\ last_stick["ABS_X"] = 0

(* -------------------------------- C17 --------------------------------- *)

\* Wakeup i read exactly one left-trigger event (evdev ABS_RX).
L2Sample(i) ==
    /\ Len(fed[i].batch) = 1
    /\ fed[i].batch[1].type = "EV_ABS"
    /\ fed[i].batch[1].code = "ABS_RX"

\* C17: an evdev ABS_RX event is written to virtual ABS_Z with its raw
\* value, unfiltered, exactly when that value differs from the last left
\* trigger value emitted (0 at first), and the value then becomes the last
\* one emitted; the stick filter state, with the right-stick-X entry kept
\* under the output code ABS_RX, plays no part and is left as it was.
C17_L2Unfiltered ==
    \A i \in Wakeups :
        L2Sample(i) =>
           LET x == fed[i].batch[1].value
               pre == fed[i].pre
           IN  /\ (\A k \in 1..(i - 1) : ~L2Sample(k)) => pre.last_l2 = 0
               /\ x # pre.last_l2 => Seg(i) = <<Write("EV_ABS", "ABS_Z", x), Syn>>
               /\ x = pre.last_l2 => Seg(i) = <<Syn>>
               /\ PostEng(i).last_l2 = x
               /\ PostEng(i).last_stick = pre.last_stick
               /\ PostEng(i) = [pre EXCEPT !.last_l2 = x]

\* With the right stick X at 32767, a left trigger value of 1 is written
\* as it is and its repetition is not; the stick entry stays.
C17_Witness ==
    /\ Len(fed) = 3
    /\ fed[1].batch = <<Ev("EV_ABS", "ABS_Z", 32767)>>
    /\ L2Sample(2) /\ L2Sample(3)
    /\ Seg(2) = <<Write("EV_ABS", "ABS_Z", 1), Syn>>
    /\ Seg(3) = <<Syn>>
    /\ last_stick = DictSet(<<>>, "ABS_RX", 32767)
    /\ last_l2 = 1

(* -------------------------------- C18 --------------------------------- *)

\* What the handler of wakeup k does when started in engine state e.
Handled(e, k) ==
    IF fed[k].src = "evdev"
    THEN LET h == EvdevHandler(e, fed[k].batch) IN [eng |-> h.eng, out |-> h.out]
    ELSE HidrawHandler(e, fed[k].data)

\* C18: when a source is reported ready and its non-blocking read finds no
\* data, the handler returns with the engine state as it was, no write and
\* no commit, and the next wakeup that reads something is served as it
\* would have been without the empty one.
C18_NoDataNoEffect ==
    \A i \in Wakeups :
        fed[i].nodata =>
           /\ Seg(i) = <<>>
           /\ PostEng(i) = fed[i].pre
           /\ (i + 1 \in Wakeups /\ ~fed[i + 1].nodata) =>
                 /\ PostEng(i + 1) = Handled(fed[i].pre, i + 1).eng
                 /\ Seg(i + 1) = Handled(fed[i].pre, i + 1).out

\* Both sources came up empty, then a report moved the right trigger.
C18_Witness ==
    /\ Len(fed) = 3
    /\ fed[1].src = "evdev" /\ fed[1].nodata
    /\ fed[2].src = "hidraw" /\ fed[2].nodata
    /\ fed[3].src = "hidraw" /\ ~fed[3].nodata
    /\ sink = StartupWrites \o <<Write("EV_ABS", "ABS_RZ", 1023), Syn>>
    /\ last_r2 = 1023

(* -------------------------------- C19 --------------------------------- *)

\* C19: once a stick axis has seen a sample, its last accepted value,
\* which is also the last value written for it, follows the post-deadzone
\* value v of its most recent raw sample: it is 0 whenever v is 0, and
\* otherwise within less than the jitter threshold of v; a sample on one
\* axis leaves the last accepted value of every other axis as it was.
C19_LastAcceptedTracks ==
    /\ \A a \in StickAxes :
          LET s == SamplesOf(InputCode(a))
              acc == ChannelWrites(a)
          IN  Len(s) >= 1 =>
                 LET v == PostDeadzone(a, s[Len(s)].ev.value)
                 IN  /\ a \in DOMAIN last_stick
                     /\ acc # <<>> /\ acc[Len(acc)] = last_stick[a]
                     /\ v = 0 => last_stick[a] = 0
                     /\ v # 0 => Abs(last_stick[a] - v) < Jitter(a)
    /\ \A i \in Wakeups :
          StickSample(i) =>
             \A b \in StickAxes \ {OutAxis(fed[i].batch[1].code)} :
                 /\ b \in DOMAIN PostEng(i).last_stick <=> b \in DOMAIN fed[i].pre.last_stick
                 /\ b \in DOMAIN fed[i].pre.last_stick
                       => PostEng(i).last_stick[b] = fed[i].pre.last_stick[b]

\* The left stick holds 3600 while its latest sample is 3899, and a right
\* stick sample in between left that entry alone.
C19_Witness ==
    /\ Values(SamplesOf("ABS_X")) = <<3600, 3899>>
    /\ Values(SamplesOf("ABS_RZ")) = <<2100>>
    /\ fed[2].batch = <<Ev("EV_ABS", "ABS_RZ", 2100)>>
    /\ last_stick = DictSet(DictSet(<<>>, "ABS_X", 3600), "ABS_RY", 2100)
    /\ ChannelWrites("ABS_X") = <<3600>>

(* -------------------------------- C20 --------------------------------- *)

\* The positions of the sink the event loop wrote to, the wakeup whose
\* handler made the call at a position, and the position of the commit
\* that carries it (0 when none has followed yet).
LoopWrites == { p \in (Len(StartupWrites) + 1)..Len(sink) : sink[p].op = "write" }

WakeupAt(p) == CHOOSE i \in Wakeups : fed[i].at < p /\ p <= SinkEnd(i)

CommitOf(p) ==
    LET later == { q \in p..Len(sink) : sink[q] = Syn }
    IN  IF later = {} THEN 0 ELSE CHOOSE q \in later : \A r \in later : q <= r

\* C20: whenever a handler has returned, so whenever select() is called
\* again (and also between the two handlers of a wakeup that found both
\* sources ready), the sink holds no uncommitted write; and no committed
\* frame holds both a right-trigger write of the hidraw handler and a write
\* of an evdev batch: the writes one commit carries come from one handler
\* run.
C20_FramesPerHandler ==
    /\ sink # <<>> /\ sink[Len(sink)] = Syn
    /\ \A p \in LoopWrites : CommitOf(p) # 0
    /\ \A p \in LoopWrites : \A q \in LoopWrites :
          CommitOf(p) = CommitOf(q) =>
             /\ fed[WakeupAt(p)].src = fed[WakeupAt(q)].src
             /\ WakeupAt(p) = WakeupAt(q)
    /\ \A p \in LoopWrites :
          (sink[p].type = "EV_ABS" /\ sink[p].code = "ABS_RZ") <=> fed[WakeupAt(p)].src = "hidraw"

\* An evdev batch with two writes, then a report: two frames, the right
\* trigger alone in the second.
C20_Witness ==
    /\ Len(fed) = 2
    /\ fed[1].src = "evdev" /\ fed[2].src = "hidraw"
    /\ sink = StartupWrites
                \o <<Write("EV_ABS", "ABS_X", 4000), Write("EV_ABS", "ABS_Z", 512), Syn,
                     Write("EV_ABS", "ABS_RZ", 1023), Syn>>

====
